---- MODULE Spec2Model ----
(***************************************************************************)
(* The unfinalized overlay of substrate/state-db (unfinalized.rs): a       *)
(* window of block overlays above the last finalized block, the journal    *)
(* it writes through CommitSets, and its reconstruction from the journal.  *)
(***************************************************************************)
EXTENDS Integers, Sequences, FiniteSets, TLC

\* ------------------------------------------------------------------ bounds

\* A run makes at most MaxCalls calls of insert and finalize.
MaxCalls == 6
\* u64 arithmetic is modelled modulo NumberModulus (a scaled-down 2^64).
NumberModulus == 8
\* A long run makes at most MaxDeepCalls calls.
MaxDeepCalls == 10
\* The inserted and deleted sequences of the journal records enumerated for
\* the codec have at most MaxRecordLen items.
MaxRecordLen == 2

Keys == {1, 2}

\* H256::default()
DefaultHash == 0

\* ---------------------------------------------------------- Option, maps

None == <<>>
Some(x) == <<x>>
IsSome(o) == Len(o) = 1
Unwrap(o) == o[1]

EmptyMap == [k \in {} |-> 0]
MapInsert(m, k, v) == [x \in (DOMAIN m) \cup {k} |-> IF x = k THEN v ELSE m[x]]

\* A removal that leaves the map as it is.
MapRemove_Keep(m, k) == m

MapRemove(m, k) == [x \in (DOMAIN m) \ {k} |-> m[x]]

\* ------------------------------------------------------ ChangeSet, CommitSet

ChangeSetOf(ins, del) == [inserted |-> ins, deleted |-> del]
EmptyChangeSet == ChangeSetOf(<<>>, <<>>)

\* The changeset of a block is given by its hash: blocks of odd hash insert
\* one key and delete another; blocks of even hash insert two keys, one of them
\* twice with different values, and delete one of the keys they insert.
BlockChangeSet(hash) ==
    IF hash % 2 = 1
    THEN ChangeSetOf(<< <<1, 10 + hash>> >>, <<2>>)
    ELSE ChangeSetOf(<< <<2, 20 + hash>>, <<1, 10 + hash>>, <<2, 30 + hash>> >>, <<1>>)

Block(hash, number, parent_hash) ==
    [hash |-> hash, number |-> number, parent_hash |-> parent_hash,
     changeset |-> BlockChangeSet(hash)]

\* The blocks of a tree, each one level above its parent_hash:
\*   the roots 1 and 2 at number 1 on the default hash, with
\*       1 - 3        at numbers 1, 2, 3;
\*       1 - 6
\*       2 - 4 - 5
\*   a block 8 at number 0 on the default hash.
TreeBlocks ==
    { Block(8, 0, DefaultHash),
      Block(1, 1, DefaultHash), Block(2, 1, DefaultHash),
      Block(3, 2, 1), Block(6, 2, 1), Block(4, 2, 2),
      Block(5, 3, 4) }

\* The arguments offered to insert, in any order and any number of times: the
\* blocks of the tree and a block 7 at number 3 whose parent_hash is block 1,
\* two levels below it.
Blocks == TreeBlocks \cup { Block(7, 3, 1) }

\* The hashes offered to finalize.
Hashes == {b.hash : b \in Blocks}

EmptyCommitSet == [data |-> EmptyChangeSet, meta |-> EmptyChangeSet]

\* ------------------------------------------------------------------ codec

UNFINALIZED_JOURNAL == "unfinalized_journal"
LAST_FINALIZED == "last_finalized"

\* to_meta_key(prefix, data): the prefix joined with the encoding of data.
to_meta_key(prefix, encoded) == <<prefix>> \o encoded

\* to_journal_key(block, index)
to_journal_key(block, index) == to_meta_key(UNFINALIZED_JOURNAL, <<block, index>>)

LastFinalizedKey == to_meta_key(LAST_FINALIZED, <<>>)

\* (BlockHash, u64)::encode and decode
EncodeLastFinalized(lf) == <<lf.hash, lf.number>>
DecodeLastFinalized(buffer) ==
    IF Len(buffer) >= 2
    THEN Some([hash |-> buffer[1], number |-> buffer[2]])
    ELSE None

RECURSIVE EncodePairs(_)
EncodePairs(s) ==
    IF s = <<>> THEN <<>> ELSE <<Head(s)[1], Head(s)[2]>> \o EncodePairs(Tail(s))

\* An encoding of the pairs last to first.
EncodeVecPairs_Reversed(s) ==
    <<Len(s)>> \o EncodePairs([i \in 1..Len(s) |-> s[Len(s) + 1 - i]])

\* A Vec is written as its length followed by its items.
EncodeVecPairs(s) == <<Len(s)>> \o EncodePairs(s)
EncodeVecKeys(s) == <<Len(s)>> \o s

\* An encoding that writes parent_hash before hash.
EncodeJournalRecord_ParentFirst(r) ==
    <<r.parent_hash, r.hash>> \o EncodeVecPairs(r.inserted) \o EncodeVecKeys(r.deleted)

\* JournalRecord::encode_to: hash, parent_hash, inserted, deleted in that order.
EncodeJournalRecord(r) ==
    <<r.hash, r.parent_hash>> \o EncodeVecPairs(r.inserted) \o EncodeVecKeys(r.deleted)

\* A decoding that takes a record cut short for one with nothing inserted and
\* nothing deleted.
DecodeJournalRecord_Lenient(b) ==
    IF Len(b) < 2 THEN None
    ELSE Some([hash |-> b[1], parent_hash |-> b[2], inserted |-> <<>>, deleted |-> <<>>])

\* JournalRecord::decode: reads the four fields in the same order; None when the
\* input ends early.
DecodeJournalRecord(b) ==
    IF Len(b) < 3 THEN None
    ELSE LET n == b[3] IN
         IF Len(b) < 4 + 2 * n THEN None
         ELSE LET m == b[4 + 2 * n] IN
              IF Len(b) < 4 + 2 * n + m THEN None
              ELSE Some([hash |-> b[1],
                         parent_hash |-> b[2],
                         inserted |-> [i \in 1..n |-> <<b[2 + 2 * i], b[3 + 2 * i]>>],
                         deleted |-> [i \in 1..m |-> b[4 + 2 * n + i]]])

\* A collection in which the first pair of a key stays.
CollectMap_FirstWins(ins) ==
    [k \in {ins[i][1] : i \in DOMAIN ins} |->
        ins[CHOOSE i \in DOMAIN ins :
                /\ ins[i][1] = k
                /\ \A j \in DOMAIN ins : ins[j][1] = k => i <= j][2]]

\* Vec<(Key, DBValue)> collected into a HashMap: a later pair replaces an
\* earlier one with the same key.
CollectMap(ins) ==
    [k \in {ins[i][1] : i \in DOMAIN ins} |->
        ins[CHOOSE i \in DOMAIN ins :
                /\ ins[i][1] = k
                /\ \A j \in DOMAIN ins : ins[j][1] = k => j <= i][2]]

\* A HashMap collected into a Vec: its entries, in any iteration order.
MapOrders(m) ==
    { s \in [1..Cardinality(DOMAIN m) -> {<<k, m[k]>> : k \in DOMAIN m}] :
        \A i, j \in DOMAIN s : i # j => s[i] # s[j] }

\* ------------------------------------------------------------------ state

VARIABLES
    last_finalized,   \* Option<(BlockHash, u64)>: None or Some([hash, number])
    levels,           \* VecDeque<Vec<BlockOverlay>>
    parents,          \* HashMap<BlockHash, BlockHash>
    meta,             \* the store's meta namespace: meta key -> bytes
    data,             \* the store's data namespace: Key -> DBValue
    commit,           \* the CommitSet returned by the last insert or finalize
    pending,          \* TRUE while that CommitSet is not yet applied to the store
    op,               \* the last call: its name and arguments
    aborted,          \* TRUE once a call has panicked
    calls,            \* the number of insert and finalize calls made
    before,           \* the overlay as it was when the last call was made
    flushed           \* the initial data with the changes of the finalized blocks

vars == <<last_finalized, levels, parents, meta, data, commit, pending, op, aborted,
          calls, before, flushed>>

\* A call and its arguments (insert's changeset is BlockChangeSet(hash)).
Call(name, hash, number, parent_hash) ==
    [name |-> name, hash |-> hash, number |-> number, parent_hash |-> parent_hash]

\* An overlay that keeps no deleted keys.
BlockOverlay_NoDeleted(hash, journal_key, values, deleted) ==
    [hash |-> hash, journal_key |-> journal_key, values |-> values, deleted |-> <<>>]

BlockOverlay(hash, journal_key, values, deleted) ==
    [hash |-> hash, journal_key |-> journal_key, values |-> values, deleted |-> deleted]

\* The overlays of all levels, as (level, index) positions.
Positions(lv) == UNION {{<<i, j>> : j \in DOMAIN lv[i]} : i \in DOMAIN lv}
OverlayCount(lv) == Cardinality(Positions(lv))

\* The number of the last finalized block itself.
front_block_number_Last(lf) ==
    IF IsSome(lf) THEN Unwrap(lf).number ELSE 0

\* front_block_number: n + 1 of the last finalized block, 0 when there is none.
front_block_number(lf) ==
    IF IsSome(lf) THEN (Unwrap(lf).number + 1) % NumberModulus ELSE 0

\* ------------------------------------------------------------ construction

NoError == "none"

\* What the store holds under a key whose get_meta fails (no encoding is a
\* sequence of negative numbers).
DbFailure == <<0 - 1>>

\* A level scan that passes over a missing index 0 or 1.
RECURSIVE ReadLevel_SkipGap(_, _, _, _)
ReadLevel_SkipGap(db, block, index, st) ==
    LET journal_key == to_journal_key(block, index) IN
    IF journal_key \notin DOMAIN db
    THEN IF index < 2 THEN ReadLevel_SkipGap(db, block, index + 1, st) ELSE st
    ELSE LET decoded == DecodeJournalRecord(db[journal_key]) IN
         IF ~IsSome(decoded) THEN [st EXCEPT !.err = "Decoding"]
         ELSE LET record == Unwrap(decoded)
                  overlay == BlockOverlay(record.hash, journal_key,
                                          CollectMap(record.inserted), record.deleted)
              IN ReadLevel_SkipGap(db, block, index + 1,
                           [level |-> Append(st.level, overlay),
                            parents |-> MapInsert(st.parents, record.hash, record.parent_hash),
                            err |-> st.err])

\* The inner loop of new: index = 0, 1, ... until the first missing journal key.
RECURSIVE ReadLevel(_, _, _, _)
ReadLevel(db, block, index, st) ==
    LET journal_key == to_journal_key(block, index) IN
    IF journal_key \notin DOMAIN db THEN st
    ELSE IF db[journal_key] = DbFailure THEN [st EXCEPT !.err = "Db"]
    ELSE LET decoded == DecodeJournalRecord(db[journal_key]) IN
         IF ~IsSome(decoded) THEN [st EXCEPT !.err = "Decoding"]
         ELSE LET record == Unwrap(decoded)
                  overlay == BlockOverlay(record.hash, journal_key,
                                          CollectMap(record.inserted), record.deleted)
              IN ReadLevel(db, block, index + 1,
                           [level |-> Append(st.level, overlay),
                            parents |-> MapInsert(st.parents, record.hash, record.parent_hash),
                            err |-> st.err])

\* The outer loop of new: block, block + 1, ... until the first empty level.
RECURSIVE ReadLevels(_, _, _)
ReadLevels(db, block, st) ==
    LET r == ReadLevel(db, block, 0, [level |-> <<>>, parents |-> st.parents, err |-> NoError]) IN
    IF r.err # NoError THEN [st EXCEPT !.err = r.err]
    ELSE IF r.level = <<>> THEN st
    ELSE ReadLevels(db, (block + 1) % NumberModulus,
                    [levels |-> Append(st.levels, r.level), parents |-> r.parents, err |-> NoError])

\* A construction that takes the block (DefaultHash, 0) for the last finalized
\* one when the store has no last-finalized entry.
New_DefaultPointer(db) ==
    LET empty == [last_finalized |-> None, levels |-> <<>>, parents |-> EmptyMap, err |-> NoError]
        lf == IF LastFinalizedKey \in DOMAIN db
              THEN DecodeLastFinalized(db[LastFinalizedKey])
              ELSE Some([hash |-> DefaultHash, number |-> 0])
    IN IF ~IsSome(lf) THEN [empty EXCEPT !.err = "Decoding"]
       ELSE LET r == ReadLevels(db, (Unwrap(lf).number + 1) % NumberModulus,
                                [levels |-> <<>>, parents |-> EmptyMap, err |-> NoError])
            IN [last_finalized |-> IF LastFinalizedKey \in DOMAIN db THEN lf ELSE None,
                levels |-> r.levels, parents |-> r.parents, err |-> r.err]

\* UnfinalizedOverlay::new(db): err is NoError on success.
New(db) ==
    LET empty == [last_finalized |-> None, levels |-> <<>>, parents |-> EmptyMap, err |-> NoError] IN
    IF LastFinalizedKey \notin DOMAIN db THEN empty
    ELSE IF db[LastFinalizedKey] = DbFailure THEN [empty EXCEPT !.err = "Db"]
    ELSE LET lf == DecodeLastFinalized(db[LastFinalizedKey]) IN
         IF ~IsSome(lf) THEN [empty EXCEPT !.err = "Decoding"]
         ELSE LET r == ReadLevels(db, (Unwrap(lf).number + 1) % NumberModulus,
                                  [levels |-> <<>>, parents |-> EmptyMap, err |-> NoError])
              IN [last_finalized |-> lf, levels |-> r.levels, parents |-> r.parents,
                  err |-> r.err]

\* ------------------------------------------------------------------ insert

\* A window that ends at the back level.
InsertWindowOk_NoNewLevel(lf, lv, number) ==
    /\ number >= front_block_number(lf)
    /\ number < front_block_number(lf) + Len(lv)

\* A parent assertion that takes any parent above the front level.
InsertParentOk_AnyParent(lf, par, number, parent_hash) ==
    IF number = front_block_number(lf)
    THEN /\ IsSome(lf)
         /\ Unwrap(lf).hash = parent_hash
    ELSE TRUE

\* A parent assertion that takes any parent in the front level.
InsertParentOk_AnyFrontParent(lf, par, number, parent_hash) ==
    IF number = front_block_number(lf)
    THEN TRUE
    ELSE parent_hash \in DOMAIN par

\* The window assertion of insert (line 136).
InsertWindowOk(lf, lv, number) ==
    /\ number >= front_block_number(lf)
    /\ number < front_block_number(lf) + Len(lv) + 1

\* The parent assertions of insert (lines 138-142).
InsertParentOk(lf, par, number, parent_hash) ==
    IF number = front_block_number(lf)
    THEN /\ IsSome(lf)
         /\ Unwrap(lf).hash = parent_hash
         /\ Unwrap(lf).number = (number - 1) % NumberModulus
    ELSE parent_hash \in DOMAIN par

\* insert takes its bootstrap branch (line 130).
IsBootstrap(lf, lv) == lv = <<>> /\ ~IsSome(lf)

\* insert panics on one of its assertions.
InsertPanics(lf, lv, par, number, parent_hash) ==
    /\ ~IsBootstrap(lf, lv)
    /\ IsSome(lf)
    /\ ~(InsertWindowOk(lf, lv, number) /\ InsertParentOk(lf, par, number, parent_hash))

\* An overlay that has a new back level pushed before the assertions.
InsertAbortState_LevelPushed(lf, lv, par) ==
    [last_finalized |-> lf, levels |-> Append(lv, <<>>), parents |-> par]

\* The overlay at a panic of insert: the assertions (lines 136-142) come before
\* the first write to levels and parents (lines 144-163).
InsertAbortState(lf, lv, par) ==
    [last_finalized |-> lf, levels |-> lv, parents |-> par]

\* The last finalized block after the first branch of insert (lines 130-134).
InsertLastFinalized(lf, lv, number, parent_hash) ==
    IF IsBootstrap(lf, lv)
    THEN Some([hash |-> parent_hash, number |-> (number - 1) % NumberModulus])
    ELSE lf

\* A level choice that always pushes a new level at the back.
InsertAppendsLevel_Always(lf1, lv, number) == TRUE

\* The index in levels (from 1) of the level insert pushes to, after it has
\* appended a new level when number is one past the back (lines 144-151).
InsertAppendsLevel(lf1, lv, number) ==
    lv = <<>> \/ number = front_block_number(lf1) + Len(lv)

\* A push that puts the new overlay at the front of its level.
InsertLevels_Front(lf1, lv, hash, number, changeset) ==
    LET lv1 == IF InsertAppendsLevel(lf1, lv, number) THEN Append(lv, <<>>) ELSE lv
        at == IF InsertAppendsLevel(lf1, lv, number)
              THEN Len(lv1)
              ELSE (number - front_block_number(lf1)) + 1
        index == Len(lv1[at])
        overlay == BlockOverlay(hash, to_journal_key(number, index),
                                CollectMap(changeset.inserted), changeset.deleted)
    IN [lv1 EXCEPT ![at] = <<overlay>> \o @]

\* The levels after insert has pushed the overlay of the block (lines 144-161).
InsertLevels(lf1, lv, hash, number, changeset) ==
    LET lv1 == IF InsertAppendsLevel(lf1, lv, number) THEN Append(lv, <<>>) ELSE lv
        at == IF InsertAppendsLevel(lf1, lv, number)
              THEN Len(lv1)
              ELSE (number - front_block_number(lf1)) + 1
        index == Len(lv1[at])
        overlay == BlockOverlay(hash, to_journal_key(number, index),
                                CollectMap(changeset.inserted), changeset.deleted)
    IN [lv1 EXCEPT ![at] = Append(@, overlay)]

\* The journal key insert gives the new overlay (lines 153-154).
InsertJournalKey(lf1, lv, number) ==
    LET at == IF InsertAppendsLevel(lf1, lv, number)
              THEN Len(lv) + 1
              ELSE (number - front_block_number(lf1)) + 1
        index == IF InsertAppendsLevel(lf1, lv, number) THEN 0 ELSE Len(lv[at])
    IN to_journal_key(number, index)

\* The CommitSet insert returns (lines 129, 133, 164-173).
InsertCommit(lf, lv, hash, number, parent_hash, changeset) ==
    LET lf1 == InsertLastFinalized(lf, lv, number, parent_hash)
        record == [hash |-> hash, parent_hash |-> parent_hash,
                   inserted |-> changeset.inserted, deleted |-> changeset.deleted]
        first == IF IsBootstrap(lf, lv)
                 THEN << <<LastFinalizedKey, EncodeLastFinalized(Unwrap(lf1))>> >>
                 ELSE <<>>
    IN [data |-> EmptyChangeSet,
        meta |-> [inserted |-> Append(first, <<InsertJournalKey(lf1, lv, number),
                                                EncodeJournalRecord(record)>>),
                  deleted |-> <<>>]]

\* ---------------------------------------------------------------- finalize

\* discard(levels, parents, discarded_journals, _, hash): removes from the first
\* level of the slice the overlays whose parent is hash and, for each, recurses
\* into the rest of the slice. panic: an overlay without an entry in parents.
RECURSIVE Discard(_, _), DiscardRetain(_, _, _, _)
Discard(st, hash) ==
    IF st.levels = <<>> \/ st.panic THEN st
    ELSE LET r == DiscardRetain(Head(st.levels), 1,
                                [kept |-> <<>>, sublevels |-> Tail(st.levels),
                                 parents |-> st.parents, journals |-> st.journals,
                                 panic |-> FALSE],
                                hash)
         IN [levels |-> <<r.kept>> \o r.sublevels, parents |-> r.parents,
             journals |-> r.journals, panic |-> r.panic]

\* The closure of level.retain in discard, applied to level[i], level[i+1], ...
DiscardRetain(level, i, st, hash) ==
    IF i > Len(level) \/ st.panic THEN st
    ELSE LET overlay == level[i] IN
         IF overlay.hash \notin DOMAIN st.parents THEN [st EXCEPT !.panic = TRUE]
         ELSE IF st.parents[overlay.hash] = hash
         THEN LET d == Discard([levels |-> st.sublevels,
                                parents |-> MapRemove(st.parents, overlay.hash),
                                journals |-> Append(st.journals, overlay.journal_key),
                                panic |-> FALSE],
                               overlay.hash)
              IN DiscardRetain(level, i + 1,
                               [kept |-> st.kept, sublevels |-> d.levels,
                                parents |-> d.parents, journals |-> d.journals,
                                panic |-> d.panic],
                               hash)
         ELSE DiscardRetain(level, i + 1, [st EXCEPT !.kept = Append(@, overlay)], hash)

\* A position that falls back on the first overlay of the level.
PositionOf_OrFirst(level, hash) ==
    IF \E i \in DOMAIN level : level[i].hash = hash
    THEN CHOOSE i \in DOMAIN level :
            /\ level[i].hash = hash
            /\ \A j \in DOMAIN level : level[j].hash = hash => i <= j
    ELSE IF level # <<>> THEN 1 ELSE 0

\* level.iter().position(|overlay| overlay.hash == *hash): 0 when there is none.
PositionOf(level, hash) ==
    IF \E i \in DOMAIN level : level[i].hash = hash
    THEN CHOOSE i \in DOMAIN level :
            /\ level[i].hash = hash
            /\ \A j \in DOMAIN level : level[j].hash = hash => i <= j
    ELSE 0

\* The loop of finalize over the popped level (lines 212-228), from level[i] on.
\* st = [levels, parents, journals, data, panic]; order is the iteration order
\* of the winner's values.
RECURSIVE FinalizeLoop(_, _, _, _, _)
FinalizeLoop(level, i, index, order, st) ==
    IF i > Len(level) \/ st.panic THEN st
    ELSE LET overlay == level[i]
             par1 == MapRemove(st.parents, overlay.hash)
         IN IF i = index
            THEN FinalizeLoop(level, i + 1, index, order,
                              [st EXCEPT !.parents = par1,
                                         !.data = ChangeSetOf(order, overlay.deleted),
                                         !.journals = Append(@, overlay.journal_key)])
            ELSE LET d == Discard([levels |-> st.levels, parents |-> par1,
                                   journals |-> st.journals, panic |-> FALSE],
                                  overlay.hash)
                 IN FinalizeLoop(level, i + 1, index, order,
                                 [levels |-> d.levels, parents |-> d.parents,
                                  journals |-> IF d.panic THEN d.journals
                                               ELSE Append(d.journals, overlay.journal_key),
                                  data |-> st.data, panic |-> d.panic])

NoPanic == "none"
PanicNoBlocks == "no blocks to finalize"
PanicUnknownBlock == "attempting to finalize unknown block"
PanicNoParent == "there is a parent entry for each entry in levels"

\* finalize(hash): the overlay and the CommitSet after the call, or the overlay
\* at the point of the panic.
FinalizeResult(lf, lv, par, hash, order) ==
    IF lv = <<>>
    THEN [last_finalized |-> lf, levels |-> lv, parents |-> par,
          commit |-> EmptyCommitSet, panic |-> PanicNoBlocks]
    ELSE LET level == Head(lv)
             index == PositionOf(level, hash)
         IN IF index = 0
            THEN [last_finalized |-> lf, levels |-> Tail(lv), parents |-> par,
                  commit |-> EmptyCommitSet, panic |-> PanicUnknownBlock]
            ELSE LET r == FinalizeLoop(level, 1, index, order,
                                       [levels |-> Tail(lv), parents |-> par,
                                        journals |-> <<>>, data |-> EmptyChangeSet,
                                        panic |-> FALSE])
                     lf1 == [hash |-> hash, number |-> front_block_number(lf)]
                 IN IF r.panic
                    THEN [last_finalized |-> lf, levels |-> <<>>, parents |-> r.parents,
                          commit |-> EmptyCommitSet, panic |-> PanicNoParent]
                    ELSE [last_finalized |-> Some(lf1), levels |-> r.levels,
                          parents |-> r.parents,
                          commit |-> [data |-> r.data,
                                      meta |-> [inserted |-> << <<LastFinalizedKey,
                                                                 EncodeLastFinalized(lf1)>> >>,
                                                deleted |-> r.journals]],
                          panic |-> NoPanic]

\* The iteration orders of the values of the first overlay of the front level.
FinalizeOrders_First(lv, hash) ==
    IF lv # <<>> /\ PositionOf(Head(lv), hash) # 0
    THEN MapOrders(Head(lv)[1].values)
    ELSE {<<>>}

\* The iteration orders finalize may see for the values of the overlay it
\* flushes (HashMap::into_iter, line 216).
FinalizeOrders(lv, hash) ==
    IF lv # <<>> /\ PositionOf(Head(lv), hash) # 0
    THEN MapOrders(Head(lv)[PositionOf(Head(lv), hash)].values)
    ELSE {<<>>}

\* -------------------------------------------------------------------- get

\* A lookup that returns the value of the last overlay holding key.
Get_Last(lv, key) ==
    LET hits == {p \in Positions(lv) : key \in DOMAIN lv[p[1]][p[2]].values} IN
    IF hits = {} THEN None
    ELSE LET last == CHOOSE p \in hits :
                        \A q \in hits : q[1] < p[1] \/ (q[1] = p[1] /\ q[2] <= p[2])
         IN Some(lv[last[1]][last[2]].values[key])

\* A lookup that passes over the overlays that delete key.
Get_Undeleted(lv, key) ==
    LET hits == {p \in Positions(lv) :
                    /\ key \in DOMAIN lv[p[1]][p[2]].values
                    /\ \A i \in DOMAIN lv[p[1]][p[2]].deleted :
                          lv[p[1]][p[2]].deleted[i] # key} IN
    IF hits = {} THEN None
    ELSE LET first == CHOOSE p \in hits :
                        \A q \in hits : p[1] < q[1] \/ (p[1] = q[1] /\ p[2] <= q[2])
         IN Some(lv[first[1]][first[2]].values[key])

\* get(key): the value of the first overlay holding key, levels front to back.
Get(lv, key) ==
    LET hits == {p \in Positions(lv) : key \in DOMAIN lv[p[1]][p[2]].values} IN
    IF hits = {} THEN None
    ELSE LET first == CHOOSE p \in hits :
                        \A q \in hits : p[1] < q[1] \/ (p[1] = q[1] /\ p[2] <= q[2])
         IN Some(lv[first[1]][first[2]].values[key])

\* ------------------------------------------------------------------ store

RECURSIVE InsertAll(_, _), RemoveAll(_, _)
InsertAll(m, pairs) ==
    IF pairs = <<>> THEN m
    ELSE InsertAll(MapInsert(m, Head(pairs)[1], Head(pairs)[2]), Tail(pairs))
RemoveAll(m, keys) ==
    IF keys = <<>> THEN m ELSE RemoveAll(MapRemove(m, Head(keys)), Tail(keys))

\* The store after a ChangeSet: its inserts, then its deletes.
ApplyChangeSet(m, cs) == RemoveAll(InsertAll(m, cs.inserted), cs.deleted)

\* ---------------------------------------------------------------- actions

Init ==
    /\ last_finalized = None
    /\ levels = <<>>
    /\ parents = EmptyMap
    /\ meta = EmptyMap
    /\ data = [k \in {1} |-> 10]
    /\ commit = EmptyCommitSet
    /\ pending = FALSE
    /\ op = Call("new", 0, 0, 0)
    /\ aborted = FALSE
    /\ calls = 0
    /\ before = [last_finalized |-> None, levels |-> <<>>, parents |-> EmptyMap]
    /\ flushed = data

\* A call that panics: the overlay is left as it is at the panic.
Abort(call, lf, lv, par) ==
    /\ aborted' = TRUE
    /\ op' = call
    /\ last_finalized' = lf
    /\ levels' = lv
    /\ parents' = par
    /\ calls' = calls + 1
    /\ before' = [last_finalized |-> last_finalized, levels |-> levels,
                  parents |-> parents]
    /\ UNCHANGED <<meta, data, commit, pending, flushed>>

\* A call that returns a CommitSet.
Return(call, lf, lv, par, c) ==
    /\ op' = call
    /\ last_finalized' = lf
    /\ levels' = lv
    /\ parents' = par
    /\ commit' = c
    /\ pending' = TRUE
    /\ calls' = calls + 1
    /\ before' = [last_finalized |-> last_finalized, levels |-> levels,
                  parents |-> parents]
    /\ flushed' = IF call.name = "finalize"
                  THEN ApplyChangeSet(flushed, BlockChangeSet(call.hash))
                  ELSE flushed
    /\ UNCHANGED <<meta, data, aborted>>

\* insert(hash, number, parent_hash, changeset)
Insert(hash, number, parent_hash, changeset) ==
    LET call == Call("insert", hash, number, parent_hash)
        lf1 == InsertLastFinalized(last_finalized, levels, number, parent_hash)
    IN /\ ~aborted
       /\ ~pending
       /\ IF InsertPanics(last_finalized, levels, parents, number, parent_hash)
          THEN LET s == InsertAbortState(last_finalized, levels, parents)
               IN Abort(call, s.last_finalized, s.levels, s.parents)
          ELSE \/ /\ IsBootstrap(last_finalized, levels)
                  /\ number = 0
                  \* number - 1 overflows: a build with overflow checks panics here
                  /\ Abort(call, last_finalized, levels, parents)
               \/ Return(call, lf1,
                         InsertLevels(lf1, levels, hash, number, changeset),
                         MapInsert(parents, hash, parent_hash),
                         InsertCommit(last_finalized, levels, hash, number,
                                      parent_hash, changeset))

\* finalize(hash)
Finalize(hash) ==
    /\ ~aborted
    /\ ~pending
    /\ \E order \in FinalizeOrders(levels, hash) :
        LET call == Call("finalize", hash, 0, 0)
            r == FinalizeResult(last_finalized, levels, parents, hash, order)
        IN IF r.panic # NoPanic
              THEN Abort(call, r.last_finalized, r.levels, r.parents)
              ELSE Return(call, r.last_finalized, r.levels, r.parents, r.commit)

\* The embedder applies the returned CommitSet to the store.
Apply ==
    /\ ~aborted
    /\ pending
    /\ data' = ApplyChangeSet(data, commit.data)
    /\ meta' = ApplyChangeSet(meta, commit.meta)
    /\ pending' = FALSE
    /\ UNCHANGED <<last_finalized, levels, parents, commit, op, aborted, calls, before,
                   flushed>>

\* The overlay is dropped and constructed again from the store.
Restart ==
    /\ ~aborted
    /\ ~pending
    /\ New(meta).err = NoError
    /\ last_finalized' = New(meta).last_finalized
    /\ levels' = New(meta).levels
    /\ parents' = New(meta).parents
    /\ op' = Call("new", 0, 0, 0)
    /\ before' = [last_finalized |-> last_finalized, levels |-> levels,
                  parents |-> parents]
    /\ UNCHANGED <<meta, data, commit, pending, aborted, calls, flushed>>

\* Any block is inserted and any hash finalized, whatever the overlay holds.
Next ==
    \/ \E b \in Blocks :
          /\ calls < MaxCalls
          /\ Insert(b.hash, b.number, b.parent_hash, b.changeset)
    \/ \E hash \in Hashes :
          /\ calls < MaxCalls
          /\ Finalize(hash)
    \/ Apply
    \/ Restart

Spec == Init /\ [][Next]_vars

\* The same calls from a caller that never inserts a hash that is in parents.
NextDistinct ==
    \/ \E b \in Blocks :
          /\ calls < MaxCalls
          /\ b.hash \notin DOMAIN parents
          /\ Insert(b.hash, b.number, b.parent_hash, b.changeset)
    \/ \E hash \in Hashes :
          /\ calls < MaxCalls
          /\ Finalize(hash)
    \/ Apply
    \/ Restart

SpecDistinct == Init /\ [][NextDistinct]_vars

\* The same calls from a caller that moreover inserts only blocks of the tree.
NextWellFormed ==
    \/ \E b \in TreeBlocks :
          /\ calls < MaxCalls
          /\ b.hash \notin DOMAIN parents
          /\ Insert(b.hash, b.number, b.parent_hash, b.changeset)
    \/ \E hash \in Hashes :
          /\ calls < MaxCalls
          /\ Finalize(hash)
    \/ Apply
    \/ Restart

SpecWellFormed == Init /\ [][NextWellFormed]_vars

\* A longer run of the same well-formed caller on a tree with two more blocks
\* at number 3.
DeepBlocks == TreeBlocks \cup { Block(9, 3, 3), Block(10, 3, 6) }
NextDeep ==
    \/ \E b \in DeepBlocks :
          /\ calls < MaxDeepCalls
          /\ b.hash \notin DOMAIN parents
          /\ Insert(b.hash, b.number, b.parent_hash, b.changeset)
    \/ \E hash \in {b.hash : b \in DeepBlocks} :
          /\ calls < MaxDeepCalls
          /\ Finalize(hash)
    \/ Apply
    \/ Restart

SpecDeep == Init /\ [][NextDeep]_vars

\* ----------------------------------------------------------------- properties

\* The overlay as a record, to compare it with what new returns.
Overlay == [last_finalized |-> last_finalized, levels |-> levels, parents |-> parents]
Restored(db) ==
    [last_finalized |-> New(db).last_finalized, levels |-> New(db).levels,
     parents |-> New(db).parents]

\* The last call was name and it returned: the overlay and commit are as it
\* left them, before is the overlay it was called on.
Returned(name) == op.name = name /\ ~aborted
\* The last call was name and it panicked: the overlay is as the panic left it.
Panicked(name) == op.name = name /\ aborted

\* C1: whenever every returned CommitSet has been applied to the store,
\* new(store) succeeds and yields the overlay in memory: the same levels, the
\* same parents and the same last_finalized.
C1_RestoreRoundTrip ==
    (~pending /\ ~aborted) => (New(meta).err = NoError /\ Restored(meta) = Overlay)

\* The overlay at a position of levels.
At(lv, p) == lv[p[1]][p[2]]
OverlayHashes(lv) == {At(lv, p).hash : p \in Positions(lv)}

\* The hashes of the overlays of the front level other than the one finalize(hash)
\* selects.
SiblingHashes(lv, hash) ==
    {Head(lv)[i].hash : i \in (DOMAIN Head(lv)) \ {PositionOf(Head(lv), hash)}}

\* The hashes in roots and all their descendants by the parents map.
RECURSIVE Descendants(_, _)
Descendants(par, roots) ==
    LET more == roots \cup {x \in DOMAIN par : par[x] \in roots} IN
    IF more = roots THEN roots ELSE Descendants(par, more)

\* C2: after finalize(h) returns, no front-level sibling of h and no descendant
\* (by the parents map) of such a sibling is left in levels or in parents, and
\* every value get returns is held by an overlay that was above the front level
\* and is no such descendant.
C2_FinalizeDiscardsSiblingSubtrees ==
    Returned("finalize") =>
        LET gone == Descendants(before.parents, SiblingHashes(before.levels, op.hash)) IN
        /\ OverlayHashes(levels) \cap gone = {}
        /\ (DOMAIN parents) \cap gone = {}
        /\ \A k \in Keys :
              IsSome(Get(levels, k)) =>
                  \E p \in Positions(before.levels) :
                      /\ p[1] > 1
                      /\ At(before.levels, p).hash \notin gone
                      /\ k \in DOMAIN At(before.levels, p).values
                      /\ At(before.levels, p).values[k] = Unwrap(Get(levels, k))

\* s is t with some of its items left out, the others in the same order.
RECURSIVE IsSubSeq(_, _)
IsSubSeq(s, t) ==
    IF s = <<>> THEN TRUE
    ELSE IF t = <<>> THEN FALSE
    ELSE IF Head(s) = Head(t) THEN IsSubSeq(Tail(s), Tail(t))
    ELSE IsSubSeq(s, Tail(t))

\* The overlay finalize(hash) selects in the front level.
Winner(lv, hash) == Head(lv)[PositionOf(Head(lv), hash)]

\* C3: finalize(h) keeps the branch of h: every level above the front keeps its
\* place, its surviving overlays unchanged and in the same order, and every
\* overlay that descends from h (by the parents map) is still in its level, with
\* its entry in parents.
C3_FinalizeKeepsWinnerBranch ==
    Returned("finalize") =>
        LET kept == Descendants(before.parents, {op.hash}) \ {op.hash} IN
        /\ Len(levels) = Len(before.levels) - 1
        /\ \A i \in DOMAIN levels : IsSubSeq(levels[i], before.levels[i + 1])
        /\ \A p \in Positions(before.levels) :
              (p[1] > 1 /\ At(before.levels, p).hash \in kept) =>
                  /\ \E j \in DOMAIN levels[p[1] - 1] :
                        levels[p[1] - 1][j] = At(before.levels, p)
                  /\ At(before.levels, p).hash \in DOMAIN parents
                  /\ parents[At(before.levels, p).hash]
                        = before.parents[At(before.levels, p).hash]

\* C4: the CommitSet of finalize(h) writes to the data namespace the values of
\* the overlay of h, each key once, and deletes the keys that overlay deletes,
\* and nothing else.
C4_FinalizeFlushesWinner ==
    Returned("finalize") =>
        /\ CollectMap(commit.data.inserted) = Winner(before.levels, op.hash).values
        /\ Len(commit.data.inserted)
              = Cardinality(DOMAIN Winner(before.levels, op.hash).values)
        /\ commit.data.deleted = Winner(before.levels, op.hash).deleted

C4_Witness ==
    /\ Returned("finalize")
    /\ Len(before.levels) >= 2
    /\ Len(before.levels[1]) >= 2
    /\ Len(commit.data.inserted) = 2
    /\ \E i \in DOMAIN before.levels[1] :
          before.levels[1][i].values # Winner(before.levels, op.hash).values

\* The overlays finalize removed, each with the index of its level before the call.
Removed ==
    {<<p[1], At(before.levels, p)>> : p \in Positions(before.levels)}
        \ {<<p[1] + 1, At(levels, p)>> : p \in Positions(levels)}
Remaining == {<<p[1] + 1, At(levels, p)>> : p \in Positions(levels)}
ItemsOf(seq) == {seq[i] : i \in DOMAIN seq}

\* C5: the CommitSet of finalize deletes from the meta namespace the journal keys
\* of the overlays the call removed, one entry for each, and no journal key of
\* an overlay that is still in the forest.
C5_FinalizeDeletesRemovedJournals ==
    Returned("finalize") =>
        /\ ItemsOf(commit.meta.deleted) = {r[2].journal_key : r \in Removed}
        /\ Len(commit.meta.deleted)
              = OverlayCount(before.levels) - OverlayCount(levels)
        /\ \A r \in Remaining : r[2].journal_key \notin ItemsOf(commit.meta.deleted)

\* C6: after finalize(h), last_finalized is (h, N), N the number of the popped
\* level (front_block_number before the call, the number in the journal keys of
\* that level), and the CommitSet's only meta insert writes the encoding of
\* (h, N) under the last-finalized key.
C6_FinalizeSetsLastFinalized ==
    Returned("finalize") =>
        LET n == (Unwrap(before.last_finalized).number + 1) % NumberModulus IN
        /\ last_finalized = Some([hash |-> op.hash, number |-> n])
        /\ Winner(before.levels, op.hash).journal_key[2] = n
        /\ commit.meta.inserted = << <<LastFinalizedKey, <<op.hash, n>> >> >>

C6_Witness ==
    /\ Returned("finalize")
    /\ Unwrap(last_finalized).number = 2
    /\ Len(before.levels[1]) >= 2

\* insert was called on an overlay with no level and no last finalized block.
WasBootstrap == before.levels = <<>> /\ ~IsSome(before.last_finalized)

\* The overlay insert has just pushed: the last one of the level of op.number.
Inserted ==
    LET level == levels[((op.number - front_block_number(last_finalized))
                            % NumberModulus) + 1]
    IN level[Len(level)]

\* C7: the CommitSet of insert writes nothing to the data namespace and deletes
\* nothing from the meta namespace; its meta inserts are the journal entry of the
\* inserted block (its journal key, the encoding of its record), preceded by the
\* last-finalized entry exactly when the insert is the bootstrap one.
C7_InsertCommitsOnlyMeta ==
    Returned("insert") =>
        LET journal == <<Inserted.journal_key,
                         <<op.hash, op.parent_hash>>
                            \o EncodeVecPairs(BlockChangeSet(op.hash).inserted)
                            \o EncodeVecKeys(BlockChangeSet(op.hash).deleted)>>
            pointer == <<LastFinalizedKey,
                         <<Unwrap(last_finalized).hash, Unwrap(last_finalized).number>> >>
        IN /\ commit.data = EmptyChangeSet
           /\ commit.meta.deleted = <<>>
           /\ Inserted.hash = op.hash
           /\ commit.meta.inserted
                 = IF WasBootstrap THEN <<pointer, journal>> ELSE <<journal>>

C7_Witness ==
    /\ Returned("insert")
    /\ ~WasBootstrap
    /\ Len(levels) = 2
    /\ Len(levels[2]) = 2
    /\ Inserted = levels[2][2]

\* C8: an insert on an overlay with no level and no last finalized block, for
\* any block number, returns, sets last_finalized to (parent_hash, number - 1),
\* puts the block alone in the only level, so that front_block_number is number,
\* and writes the encoding of (parent_hash, number - 1) under the
\* last-finalized key.
C8_BootstrapInsert ==
    (op.name = "insert" /\ WasBootstrap) =>
        /\ ~aborted
        /\ last_finalized
              = Some([hash |-> op.parent_hash, number |-> op.number - 1])
        /\ Len(levels) = 1
        /\ Len(levels[1]) = 1
        /\ levels[1][1].hash = op.hash
        /\ levels[1][1].journal_key = <<UNFINALIZED_JOURNAL, op.number, 0>>
        /\ Unwrap(last_finalized).number + 1 = op.number
        /\ commit.meta.inserted[1]
              = <<LastFinalizedKey, <<op.parent_hash, op.number - 1>> >>

\* The window of insert on the overlay it was called on: the numbers of its
\* levels and one past the back.
BeforeFront == (Unwrap(before.last_finalized).number + 1) % NumberModulus
InWindowBefore(number) ==
    number >= BeforeFront /\ number <= BeforeFront + Len(before.levels)

\* C9: with last_finalized set, an insert with a number below front_block_number
\* or above front_block_number + levels.len() panics, and an insert with a number
\* inside that window, one past the back level included, panics exactly when its
\* parent_hash fails the parent assertion.
C9_InsertWindow ==
    (op.name = "insert" /\ IsSome(before.last_finalized)) =>
        /\ ~InWindowBefore(op.number) => aborted
        /\ InWindowBefore(op.number) =>
              (aborted <=>
                  IF op.number = BeforeFront
                  THEN op.parent_hash # Unwrap(before.last_finalized).hash
                  ELSE op.parent_hash \notin DOMAIN before.parents)

C9_Witness ==
    /\ Returned("insert")
    /\ IsSome(before.last_finalized)
    /\ Len(before.levels) = 2
    /\ op.number = BeforeFront + Len(before.levels)

\* C10: with last_finalized set, an insert with a number above front_block_number
\* and a parent_hash that is no key of parents panics.
C10_InsertUnknownParent ==
    (/\ op.name = "insert"
     /\ IsSome(before.last_finalized)
     /\ op.number > BeforeFront
     /\ op.parent_hash \notin DOMAIN before.parents) => aborted

C10_Witness ==
    /\ Panicked("insert")
    /\ IsSome(before.last_finalized)
    /\ op.number > BeforeFront
    /\ InWindowBefore(op.number)
    /\ op.parent_hash \notin DOMAIN before.parents

\* C11: with last_finalized set, an insert with number = front_block_number
\* panics exactly when its parent_hash is not the hash of the last finalized
\* block.
C11_InsertFrontParent ==
    (/\ op.name = "insert"
     /\ IsSome(before.last_finalized)
     /\ op.number = BeforeFront) =>
        (aborted <=> op.parent_hash # Unwrap(before.last_finalized).hash)

C11_Witness ==
    /\ Panicked("insert")
    /\ IsSome(before.last_finalized)
    /\ op.number = BeforeFront
    /\ op.parent_hash # Unwrap(before.last_finalized).hash
    /\ InWindowBefore(op.number)

\* C12: an insert with a hash that is already a key of parents panics.
C12_InsertDuplicateHash ==
    (op.name = "insert" /\ op.hash \in DOMAIN before.parents) => aborted

\* The hashes of the overlays of the front level.
FrontHashes(lv) ==
    IF lv = <<>> THEN {} ELSE {Head(lv)[i].hash : i \in DOMAIN Head(lv)}

\* C13: finalize(hash) panics whenever hash is not the hash of an overlay of the
\* front level: with no level, with a hash of no overlay, and with the hash of
\* an overlay of a deeper level only.
C13_FinalizeNotInFront ==
    (op.name = "finalize" /\ op.hash \notin FrontHashes(before.levels)) => aborted

C13_Witness ==
    /\ Panicked("finalize")
    /\ op.hash \notin FrontHashes(before.levels)
    /\ op.hash \in OverlayHashes(before.levels)

\* The overlays of all levels, front to back, as one sequence.
RECURSIVE Flatten(_)
Flatten(lv) == IF lv = <<>> THEN <<>> ELSE Head(lv) \o Flatten(Tail(lv))

\* C14: after every operation that returned, the hashes of the overlays are
\* pairwise distinct over all levels and the keys of parents are exactly these
\* hashes, so that parents has as many entries as there are overlays.
C14_ParentsMatchOverlays ==
    ~aborted =>
        /\ \A i, j \in DOMAIN Flatten(levels) :
              Flatten(levels)[i].hash = Flatten(levels)[j].hash => i = j
        /\ DOMAIN parents = OverlayHashes(levels)
        /\ Cardinality(DOMAIN parents) = OverlayCount(levels)

\* C15: after every operation that returned, the parent of every overlay of a
\* level above the front one is the hash of an overlay of the level just
\* before it.
C15_ParentInPrecedingLevel ==
    ~aborted =>
        \A p \in Positions(levels) :
            p[1] > 1 =>
                /\ At(levels, p).hash \in DOMAIN parents
                /\ \E j \in DOMAIN levels[p[1] - 1] :
                      levels[p[1] - 1][j].hash = parents[At(levels, p).hash]

\* C16: after every operation that returned, the parent of every overlay of the
\* front level is the hash of the last finalized block.
C16_FrontParentIsLastFinalized ==
    (~aborted /\ levels # <<>>) =>
        \A i \in DOMAIN levels[1] :
            /\ IsSome(last_finalized)
            /\ levels[1][i].hash \in DOMAIN parents
            /\ parents[levels[1][i].hash] = Unwrap(last_finalized).hash

\* The block number an overlay was inserted with, as its journal key holds it.
NumberOf(overlay) == overlay.journal_key[2]

\* C17: after every operation that returned, every overlay of levels[i] (from 0)
\* was inserted with the block number front_block_number + i.
C17_LevelsContiguous ==
    ~aborted =>
        \A p \in Positions(levels) :
            NumberOf(At(levels, p))
                = (front_block_number(last_finalized) + (p[1] - 1)) % NumberModulus

C17_Witness ==
    /\ Returned("insert")
    /\ Unwrap(last_finalized).number >= 1
    /\ Unwrap(last_finalized).number < NumberModulus - 1
    /\ Len(levels) = 2
    /\ op.number = front_block_number(last_finalized) + 1
    /\ NumberOf(Inserted) = op.number

\* C18: after every operation that returned, the journal key of every overlay is
\* the journal key of the block number of its level and of the index it has in
\* that level now.
C18_JournalKeyIsPosition ==
    ~aborted =>
        \A p \in Positions(levels) :
            At(levels, p).journal_key
                = to_journal_key((front_block_number(last_finalized) + (p[1] - 1))
                                    % NumberModulus,
                                 p[2] - 1)

\* The journal record of an overlay, as insert wrote it, is stored under key.
StoresRecordOf(db, key, overlay, par) ==
    /\ key \in DOMAIN db
    /\ IsSome(DecodeJournalRecord(db[key]))
    /\ LET record == Unwrap(DecodeJournalRecord(db[key])) IN
          /\ record.hash = overlay.hash
          /\ overlay.hash \in DOMAIN par
          /\ record.parent_hash = par[overlay.hash]
          /\ CollectMap(record.inserted) = overlay.values
          /\ record.deleted = overlay.deleted

\* C19: with every returned CommitSet applied to the store, after every
\* operation that returned each overlay of the forest has a journal record
\* stored under its journal_key, which decodes to the overlay's hash, its
\* parent, its values and its deleted keys: no later insert has replaced it.
C19_JournalRecordStored ==
    (~aborted /\ ~pending) =>
        \A p \in Positions(levels) :
            StoresRecordOf(meta, At(levels, p).journal_key, At(levels, p), parents)

\* The value of key in the first overlay of a sequence of overlays that holds it.
RECURSIVE FirstWith(_, _)
FirstWith(overlays, key) ==
    IF overlays = <<>> THEN None
    ELSE IF key \in DOMAIN Head(overlays).values
         THEN Some(Head(overlays).values[key])
         ELSE FirstWith(Tail(overlays), key)

\* C20: get(key) returns the value of the first overlay that holds key, levels
\* front to back and overlays in the order of their level, and None exactly when
\* no overlay of the forest holds key.
C20_GetFirstValue ==
    ~aborted =>
        \A key \in Keys :
            /\ Get(levels, key) = FirstWith(Flatten(levels), key)
            /\ Get(levels, key) = None
                  <=> \A p \in Positions(levels) : key \notin DOMAIN At(levels, p).values

C20_Witness ==
    /\ Returned("finalize")
    /\ IsSome(Get(before.levels, 2))
    /\ Get(levels, 2) = None
    /\ OverlayCount(levels) >= 2
    /\ \E p, q \in Positions(levels) :
          At(levels, p).values[1] # At(levels, q).values[1]

\* C21: get takes no account of deleted: a key among the values of an overlay of
\* the forest has a value by get, whichever overlays list it in deleted, and an
\* insert of a block that deletes a key without writing it leaves what get
\* returns for that key as it was.
C21_GetIgnoresDeleted ==
    ~aborted =>
        \A key \in Keys :
            /\ (\E p \in Positions(levels) : key \in DOMAIN At(levels, p).values)
                  => /\ IsSome(Get(levels, key))
                     /\ \E p \in Positions(levels) :
                           /\ key \in DOMAIN At(levels, p).values
                           /\ At(levels, p).values[key] = Unwrap(Get(levels, key))
            /\ (/\ op.name = "insert"
                /\ key \in ItemsOf(Inserted.deleted)
                /\ key \notin DOMAIN Inserted.values)
                  => Get(levels, key) = Get(before.levels, key)

C21_Witness ==
    /\ Returned("insert")
    /\ Len(levels) = 2
    /\ 1 \in ItemsOf(Inserted.deleted)
    /\ Inserted = levels[2][1]
    /\ 1 \in ItemsOf(levels[1][1].deleted)
    /\ Get(levels, 1) = Some(levels[1][1].values[1])

\* C22: when every CommitSet but the one of the last insert or finalize has been
\* applied to the store, new(db) gives the overlay as it was just before that
\* last call.
C22_CrashConsistency ==
    (pending /\ ~aborted) =>
        (New(meta).err = NoError /\ Restored(meta) = before)

\* The store with its last-finalized entry taken out, the journal entries left.
StoreWithoutPointer == MapRemove(meta, LastFinalizedKey)

\* C23: new on a store with no last-finalized entry gives an overlay with
\* last_finalized absent, no level and no entry in parents, whatever journal
\* entries the store holds.
C23_NewWithoutPointer ==
    /\ New(StoreWithoutPointer)
          = [last_finalized |-> None, levels |-> <<>>, parents |-> EmptyMap,
             err |-> NoError]
    /\ (op.name = "new" /\ LastFinalizedKey \notin DOMAIN meta) =>
          /\ last_finalized = None
          /\ levels = <<>>
          /\ parents = EmptyMap

C23_Witness ==
    /\ ~pending
    /\ to_journal_key(1, 0) \in DOMAIN StoreWithoutPointer
    /\ to_journal_key(1, 1) \in DOMAIN StoreWithoutPointer
    /\ to_journal_key(2, 0) \in DOMAIN StoreWithoutPointer
    /\ New(StoreWithoutPointer).levels = <<>>

\* C24: new reads the block numbers upward from last_finalized.number + 1 and,
\* for each, the indices upward from 0: a loaded level holds the entries of the
\* indices below the first missing one, in that order, and is not empty, and
\* the levels end at the first block number with no entry at index 0, so that
\* no entry beyond a missing index or beyond an empty level is loaded.
C24_ReplayScanShape ==
    (LastFinalizedKey \in DOMAIN meta /\ New(meta).err = NoError) =>
        LET r == New(meta)
            NumberAt(i) == (Unwrap(r.last_finalized).number + i) % NumberModulus
        IN /\ \A i \in DOMAIN r.levels :
                 /\ r.levels[i] # <<>>
                 /\ \A j \in DOMAIN r.levels[i] :
                       /\ r.levels[i][j].journal_key = to_journal_key(NumberAt(i), j - 1)
                       /\ StoresRecordOf(meta, to_journal_key(NumberAt(i), j - 1),
                                         r.levels[i][j],
                                         [h \in {r.levels[i][j].hash} |->
                                            Unwrap(DecodeJournalRecord(
                                                meta[to_journal_key(NumberAt(i), j - 1)])).parent_hash])
                 /\ to_journal_key(NumberAt(i), Len(r.levels[i])) \notin DOMAIN meta
           /\ to_journal_key(NumberAt(Len(r.levels) + 1), 0) \notin DOMAIN meta

C24_Witness ==
    /\ op.name = "new"
    /\ IsSome(last_finalized)
    /\ Len(levels) = 1
    /\ to_journal_key(NumberOf(levels[1][1]), Len(levels[1])) \notin DOMAIN meta
    /\ to_journal_key(NumberOf(levels[1][1]), Len(levels[1]) + 1) \in DOMAIN meta

\* The keys new reads on a store it constructs from: the last-finalized key, the
\* journal keys of the overlays it loads, and the missing key that ends each
\* level and the scan.
KeysRead(db) ==
    LET r == New(db)
        NumberAt(i) == (Unwrap(r.last_finalized).number + i) % NumberModulus
    IN {LastFinalizedKey}
          \cup {to_journal_key(NumberAt(i), j - 1) :
                    <<i, j>> \in {<<p[1], p[2]>> : p \in Positions(r.levels)}}
          \cup {to_journal_key(NumberAt(i), Len(r.levels[i])) : i \in DOMAIN r.levels}
          \cup {to_journal_key(NumberAt(Len(r.levels) + 1), 0)}

\* The store with the value under key cut short by its last item.
Truncated(db, key) == MapInsert(db, key, SubSeq(db[key], 1, Len(db[key]) - 1))
\* The store whose get_meta fails on key.
Failing(db, key) == MapInsert(db, key, DbFailure)

\* C25: new fails with Error::Db when a get_meta it makes fails, and with
\* Error::Decoding when the last-finalized entry or a journal record it reads
\* cannot be decoded.
C25_NewFails ==
    (LastFinalizedKey \in DOMAIN meta /\ New(meta).err = NoError) =>
        \A key \in KeysRead(meta) :
            /\ New(Failing(meta, key)).err = "Db"
            /\ key \in DOMAIN meta => New(Truncated(meta, key)).err = "Decoding"

C25_Witness ==
    /\ ~pending
    /\ LastFinalizedKey \in DOMAIN meta
    /\ Len(New(meta).levels) = 2
    /\ Len(New(meta).levels[2]) = 2
    /\ New(Truncated(meta, New(meta).levels[2][2].journal_key)).err = "Decoding"
    /\ New(Failing(meta, New(meta).levels[2][2].journal_key)).err = "Db"

\* Journal records over two hashes, two parents and every inserted and deleted
\* sequence of at most MaxRecordLen items.
SeqsUpTo(S, n) == UNION {[1..k -> S] : k \in 0..n}
Records ==
    [hash : {1, 2}, parent_hash : {DefaultHash, 1},
     inserted : SeqsUpTo(Keys \X {10, 20}, MaxRecordLen),
     deleted : SeqsUpTo(Keys, MaxRecordLen)]

\* C26: decoding the encoding of a journal record gives the record back; the
\* encoding holds hash, parent_hash, inserted and deleted in that order, the
\* inserted pairs in their order and with their repetitions. This holds for the
\* record of every insert and for every record of Records (which no state
\* bears on: they are gone through before the first call).
C26_JournalRecordRoundTrip ==
    /\ calls = 0 => \A r \in Records :
          /\ DecodeJournalRecord(EncodeJournalRecord(r)) = Some(r)
          /\ EncodeJournalRecord(r)
                = <<r.hash, r.parent_hash, Len(r.inserted)>>
                     \o EncodePairs(r.inserted) \o <<Len(r.deleted)>> \o r.deleted
    /\ Returned("insert") =>
          LET bytes == commit.meta.inserted[Len(commit.meta.inserted)][2] IN
          DecodeJournalRecord(bytes)
              = Some([hash |-> op.hash, parent_hash |-> op.parent_hash,
                      inserted |-> BlockChangeSet(op.hash).inserted,
                      deleted |-> BlockChangeSet(op.hash).deleted])

C26_Witness ==
    /\ Returned("insert")
    /\ pending
    /\ Len(BlockChangeSet(op.hash).inserted) = 3
    /\ BlockChangeSet(op.hash).inserted[1][1] = BlockChangeSet(op.hash).inserted[3][1]
    /\ Len(Unwrap(DecodeJournalRecord(
              commit.meta.inserted[Len(commit.meta.inserted)][2])).inserted) = 3

\* C27: the CommitSet finalize returns is determined by the calls made so far:
\* on the overlay and hash of the call, finalize can return no other CommitSet,
\* the order of commit.data.inserted included.
C27_FinalizeDeterministic ==
    Returned("finalize") =>
        \A order \in FinalizeOrders(before.levels, op.hash) :
            FinalizeResult(before.last_finalized, before.levels, before.parents,
                           op.hash, order).commit = commit

\* C28: a finalize that returns takes exactly one level off the front, and on
\* a forest of one level holding one overlay it leaves no level and no entry
\* in parents.
C28_FinalizePopsOneLevel ==
    Returned("finalize") =>
        /\ Len(levels) = Len(before.levels) - 1
        /\ (Len(before.levels) = 1 /\ Len(before.levels[1]) = 1) =>
              (levels = <<>> /\ parents = EmptyMap)

C28_Witness ==
    /\ Returned("finalize")
    /\ Len(before.levels) = 1
    /\ Len(before.levels[1]) = 1
    /\ Unwrap(last_finalized).number = 2

\* C29: with every CommitSet applied, the data namespace is the initial data
\* with, for each finalized block in the order of the finalize calls, its
\* inserted keys written and its deleted keys removed; the CommitSet of an
\* insert changes nothing of it, and the changes of a block that was discarded
\* or is not finalized are not in it.
C29_DataIsFinalizedChanges ==
    ~aborted =>
        IF pending THEN ApplyChangeSet(data, commit.data) = flushed
        ELSE data = flushed

C29_Witness ==
    /\ Returned("finalize")
    /\ ~pending
    /\ Unwrap(last_finalized).number = 2
    /\ Len(before.levels[1]) = 2
    /\ data = flushed
    /\ 2 \in DOMAIN data

\* The value of the last pair of key in a sequence of pairs.
LastValue(ins, key) ==
    ins[CHOOSE i \in DOMAIN ins :
            /\ ins[i][1] = key
            /\ \A j \in DOMAIN ins : ins[j][1] = key => j <= i][2]
KeysOf(ins) == {ins[i][1] : i \in DOMAIN ins}

\* C30: a key that occurs several times in changeset.inserted has, in the
\* overlay of the block, the value of its last occurrence: this is the value get
\* sees in that overlay, the value new builds from the journal record, and the
\* value finalize writes, the key once.
C30_InsertedLastWriteWins ==
    /\ Returned("insert") =>
          LET ins == BlockChangeSet(op.hash).inserted IN
          /\ DOMAIN Inserted.values = KeysOf(ins)
          /\ \A key \in KeysOf(ins) :
                /\ Inserted.values[key] = LastValue(ins, key)
                /\ ~IsSome(Get(before.levels, key))
                      => Get(levels, key) = Some(LastValue(ins, key))
          /\ LET record == Unwrap(DecodeJournalRecord(
                               commit.meta.inserted[Len(commit.meta.inserted)][2]))
                 db == MapInsert(EmptyMap, Inserted.journal_key,
                                 commit.meta.inserted[Len(commit.meta.inserted)][2])
             IN /\ record.inserted = ins
                /\ ReadLevel(db, op.number, Inserted.journal_key[3],
                             [level |-> <<>>, parents |-> EmptyMap, err |-> NoError]).level
                      = <<Inserted>>
    /\ Returned("finalize") =>
          LET ins == BlockChangeSet(op.hash).inserted IN
          /\ Len(commit.data.inserted) = Cardinality(KeysOf(ins))
          /\ \A i \in DOMAIN commit.data.inserted :
                commit.data.inserted[i][2] = LastValue(ins, commit.data.inserted[i][1])

C30_Witness ==
    /\ Returned("finalize")
    /\ Len(BlockChangeSet(op.hash).inserted) = 3
    /\ Len(commit.data.inserted) = 2
    /\ op.hash = 4
    /\ \E i \in DOMAIN commit.data.inserted : commit.data.inserted[i] = <<2, 34>>

\* The index in levels (from 1) of the level of op.number on the overlay insert
\* was called on.
TargetLevel == IF WasBootstrap THEN 1 ELSE (op.number - BeforeFront) + 1

\* The overlays that level had before the call.
TargetBefore ==
    IF TargetLevel \in DOMAIN before.levels THEN before.levels[TargetLevel] ELSE <<>>

\* C31: an insert that returns appends one overlay at the end of the level of
\* its number, a new back level when the number is one past the back, with the
\* journal key of (number, length of the level before the call); parents is the
\* former map with hash -> parent_hash; every other overlay keeps its place, and
\* last_finalized is unchanged unless the overlay had no level and no last
\* finalized block.
C31_InsertAppendsOneOverlay ==
    Returned("insert") =>
        /\ TargetLevel \in 1..(Len(before.levels) + 1)
        /\ Len(levels) = IF TargetLevel \in DOMAIN before.levels
                         THEN Len(before.levels)
                         ELSE Len(before.levels) + 1
        /\ \A i \in DOMAIN levels : i # TargetLevel => levels[i] = before.levels[i]
        /\ levels[TargetLevel]
              = Append(TargetBefore,
                       [hash |-> op.hash,
                        journal_key |-> <<UNFINALIZED_JOURNAL, op.number, Len(TargetBefore)>>,
                        values |-> [k \in KeysOf(BlockChangeSet(op.hash).inserted) |->
                                       LastValue(BlockChangeSet(op.hash).inserted, k)],
                        deleted |-> BlockChangeSet(op.hash).deleted])
        /\ DOMAIN parents = DOMAIN before.parents \cup {op.hash}
        /\ parents[op.hash] = op.parent_hash
        /\ \A h \in DOMAIN before.parents : h # op.hash => parents[h] = before.parents[h]
        /\ OverlayCount(levels) = OverlayCount(before.levels) + 1
        /\ ~WasBootstrap => last_finalized = before.last_finalized

C31_Witness ==
    /\ Returned("insert")
    /\ ~WasBootstrap
    /\ Len(before.levels) = 3
    /\ TargetLevel = 2
    /\ Len(TargetBefore) = 1
    /\ Len(levels[2]) = 2
    /\ Len(levels[3]) >= 1

\* C32: once last_finalized is set it stays set; an insert that returns on an
\* overlay with last_finalized set leaves last_finalized as it is and writes no
\* last-finalized entry, and, when the overlay has no level, is an insert of
\* number last_finalized.number + 1 with parent_hash last_finalized.hash; each
\* finalize that returns increases last_finalized.number by exactly 1.
C32_LastFinalizedStaysSet ==
    /\ IsSome(before.last_finalized) => IsSome(last_finalized)
    /\ (Returned("insert") /\ IsSome(before.last_finalized)) =>
          /\ last_finalized = before.last_finalized
          /\ \A i \in DOMAIN commit.meta.inserted :
                commit.meta.inserted[i][1] # LastFinalizedKey
          /\ before.levels = <<>> =>
                /\ op.number = Unwrap(before.last_finalized).number + 1
                /\ op.parent_hash = Unwrap(before.last_finalized).hash
    /\ Returned("finalize") =>
          /\ IsSome(before.last_finalized)
          /\ Unwrap(last_finalized).number = Unwrap(before.last_finalized).number + 1

\* C33: a finalize called with the hash of an overlay of the front level
\* returns: every overlay the pruning visits has an entry in parents.
C33_FinalizeFrontNeverAborts ==
    (op.name = "finalize" /\ op.hash \in FrontHashes(before.levels)) => ~aborted

\* C34: whenever finalize(hash) returns, the parent of hash on the overlay it
\* was called on is the hash of the block finalized before.
C34_FinalizedParentChain ==
    Returned("finalize") =>
        /\ IsSome(before.last_finalized)
        /\ op.hash \in DOMAIN before.parents
        /\ before.parents[op.hash] = Unwrap(before.last_finalized).hash

\* C35: after every operation that returned, the journal keys of the overlays
\* are pairwise distinct over all levels.
C35_JournalKeysDistinct ==
    ~aborted =>
        \A i, j \in DOMAIN Flatten(levels) :
            Flatten(levels)[i].journal_key = Flatten(levels)[j].journal_key => i = j

\* C36: after every operation that returned, no level is empty.
C36_NoEmptyLevel ==
    ~aborted => \A i \in DOMAIN levels : levels[i] # <<>>

\* C37: an insert on an overlay with no level and no last finalized block is
\* defined for every block number, 0 included: it returns, number - 1 does not
\* fall below 0, and front_block_number is number afterwards.
C37_BootstrapNumberNoUnderflow ==
    (op.name = "insert" /\ WasBootstrap) =>
        /\ ~aborted
        /\ Unwrap(last_finalized).number = op.number - 1
        /\ op.number - 1 >= 0
        /\ front_block_number(last_finalized) = op.number

\* C38: an insert that panics on the window or on a parent assertion leaves
\* levels, parents and last_finalized as they were.
C38_InsertAbortLeavesOverlay ==
    (Panicked("insert") /\ ~WasBootstrap) => Overlay = before

C38_Witness ==
    /\ Panicked("insert")
    /\ ~WasBootstrap
    /\ Len(before.levels) = 2
    /\ op.number = BeforeFront + 1
    /\ op.parent_hash \notin DOMAIN before.parents
    /\ Overlay = before

\* C39: a finalize that panics because hash is the hash of no overlay of the
\* front level leaves levels, parents and last_finalized as they were.
C39_FinalizeAbortLeavesOverlay ==
    (/\ Panicked("finalize")
     /\ before.levels # <<>>
     /\ op.hash \notin FrontHashes(before.levels)) => Overlay = before

====
